---------------------------- MODULE Spec2Model ----------------------------
(***************************************************************************)
(* A model of yocton.py: the streaming lexer (class Lexer), the pull       *)
(* parser (class YoctonObject), the writer (class YoctonWriter) and the    *)
(* tree adapters load/loads/dump/dumps.                                    *)
(*                                                                         *)
(* Characters are code points (integers); a Python str or bytes value is   *)
(* a sequence of code points.  Every method is a pure operator from the    *)
(* state of the objects it touches to their new state, its return value    *)
(* and the exception it raised (NoExc when it returned normally); the      *)
(* actions apply these operators to the variables.                         *)
(***************************************************************************)
EXTENDS Integers, Sequences, FiniteSets, TLC

VARIABLES
    doc,          \* the whole input text handed to parse()/Lexer()
    lexer,        \* the Lexer object
    nodes,        \* the YoctonObject instances, by creation order (1 = root)
    log,          \* history: the tokens next_prop read at line 281 in the last call
    last,         \* history: what the last caller-level call returned or raised
    called,       \* history: the node the last next_prop call was made on
    raisedBefore, \* history: some call before the last one raised
    eager,        \* history: load(doc), computed once from the same text
    toks,         \* history: the token sequence of doc, lexed once from the same text
    tree,         \* round trip: the tree handed to dumps()
    text,         \* round trip: dumps(tree)
    back,         \* round trip: loads(text)
    phase,        \* round trip: which call has been made
    writer,       \* the YoctonWriter object and its outstream
    stack,        \* draining: the nodes whose next_prop call is active, outermost first
    reading       \* draining: the nodes load()'s read_obj is iterating, outermost first

vars == <<doc, lexer, nodes, log, last, called, raisedBefore, eager, toks,
          tree, text, back, phase, writer, stack, reading>>

-----------------------------------------------------------------------------
(* Python builtins the code relies on                                       *)

\* ord(): the code points of the characters the inputs are written with
OrdOf(ch) ==
    CASE ch = "NUL" -> 0
      [] ch = "SOH" -> 1
      [] ch = "\t" -> 9
      [] ch = "\n" -> 10
      [] ch = "US" -> 31
      [] ch = " " -> 32
      [] ch = "\"" -> 34
      [] ch = "&" -> 38
      [] ch = "+" -> 43
      [] ch = "-" -> 45
      [] ch = "." -> 46
      [] ch = "/" -> 47
      [] ch = "0" -> 48
      [] ch = "1" -> 49
      [] ch = "2" -> 50
      [] ch = "3" -> 51
      [] ch = "4" -> 52
      [] ch = "5" -> 53
      [] ch = "6" -> 54
      [] ch = "7" -> 55
      [] ch = "8" -> 56
      [] ch = "9" -> 57
      [] ch = ":" -> 58
      [] ch = "A" -> 65
      [] ch = "F" -> 70
      [] ch = "G" -> 71
      [] ch = "Z" -> 90
      [] ch = "\\" -> 92
      [] ch = "_" -> 95
      [] ch = "a" -> 97
      [] ch = "b" -> 98
      [] ch = "c" -> 99
      [] ch = "d" -> 100
      [] ch = "e" -> 101
      [] ch = "f" -> 102
      [] ch = "g" -> 103
      [] ch = "n" -> 110
      [] ch = "q" -> 113
      [] ch = "t" -> 116
      [] ch = "u" -> 117
      [] ch = "v" -> 118
      [] ch = "w" -> 119
      [] ch = "x" -> 120
      [] ch = "z" -> 122
      [] ch = "{" -> 123
      [] ch = "}" -> 125
      [] ch = "DEL" -> 127
      [] ch = "xEF" -> 239
      [] ch = "xBB" -> 187
      [] ch = "xBF" -> 191
      [] ch = "BOM" -> 65279

\* a str literal: the tuple of its characters, as code points
Str(t) == [i \in DOMAIN t |-> OrdOf(t[i])]

Min(a, b) == IF a <= b THEN a ELSE b

RECURSIVE Concat(_)
\* ''.join(parts)
Concat(parts) ==
    IF parts = <<>> THEN <<>> ELSE Head(parts) \o Concat(Tail(parts))

\* str.isspace() of the one-character string chr(c)
IsSpace(c) ==
    \/ (c >= 9 /\ c <= 13)
    \/ (c >= 28 /\ c <= 32)
    \/ c \in {133, 160, 5760, 8232, 8233, 8239, 8287, 12288}
    \/ (c >= 8192 /\ c <= 8202)

\* the value of one hexadecimal digit, or NoChar
NoChar == -1

HexDigit(c) ==
    IF c >= 48 /\ c <= 57 THEN c - 48
    ELSE IF c >= 97 /\ c <= 102 THEN c - 87
    ELSE IF c >= 65 /\ c <= 70 THEN c - 55
    ELSE NoChar

\* int("%c%c" % (d1, d2), 16): [ok |-> FALSE] stands for ValueError.  int()
\* strips surrounding whitespace and accepts a sign, so of two characters it
\* takes two digits, a sign and a digit, or a digit beside one space character.
\* (Non-ASCII decimal digits are not among the characters of the inputs.)
IntBase16(d1, d2) ==
    LET h1 == HexDigit(d1)
        h2 == HexDigit(d2)
    IN  IF h1 # NoChar /\ h2 # NoChar THEN [ok |-> TRUE, v |-> 16 * h1 + h2]
        ELSE IF d1 = 43 /\ h2 # NoChar THEN [ok |-> TRUE, v |-> h2]
        ELSE IF d1 = 45 /\ h2 # NoChar THEN [ok |-> TRUE, v |-> 0 - h2]
        ELSE IF IsSpace(d1) /\ h2 # NoChar THEN [ok |-> TRUE, v |-> h2]
        ELSE IF h1 # NoChar /\ IsSpace(d2) THEN [ok |-> TRUE, v |-> h1]
        ELSE [ok |-> FALSE, v |-> 0]

-----------------------------------------------------------------------------
(* Module constants, yocton.py lines 25-49                                  *)

TOKEN_STRING == 0
TOKEN_COLON == 1
TOKEN_OPEN_BRACE == 2
TOKEN_CLOSE_BRACE == 3
TOKEN_EOF == 4
TOKEN_NONE == 5

ASCII_X == 120
ASCII_QUOTES == 34
ASCII_SLASH == 47
ASCII_BACKSLASH == 92
ASCII_NEWLINE == 10
ASCII_OPEN_BRACE == 123
ASCII_CLOSE_BRACE == 125
ASCII_COLON == 58
ASCII_AMPERSAND == 38
BOM == 65279
UTF8_BOM == <<239, 187, 191>>
ERROR_EOF == "unexpected EOF"
READ_SIZE == 128

\* SIMPLE_ESCAPES.get(c): the escaped character, or NoChar for None
SIMPLE_ESCAPES(c) ==
    CASE c = 110 -> ASCII_NEWLINE
      [] c = 116 -> 9
      [] c = ASCII_QUOTES -> ASCII_QUOTES
      [] c = ASCII_BACKSLASH -> ASCII_BACKSLASH
      [] OTHER -> NoChar

\* REVERSE_ESCAPES.get(c): the two-character escape, or <<>> for None
REVERSE_ESCAPES(c) ==
    CASE c = ASCII_NEWLINE -> <<ASCII_BACKSLASH, 110>>
      [] c = 9 -> <<ASCII_BACKSLASH, 116>>
      [] c = ASCII_QUOTES -> <<ASCII_BACKSLASH, ASCII_QUOTES>>
      [] c = ASCII_BACKSLASH -> <<ASCII_BACKSLASH, ASCII_BACKSLASH>>
      [] OTHER -> <<>>

\* one character of the class [a-zA-Z0-9_\-\+\.]
SymbolClass(c) ==
    \/ (c >= 97 /\ c <= 122)
    \/ (c >= 65 /\ c <= 90)
    \/ (c >= 48 /\ c <= 57)
    \/ c \in {95, 45, 43, 46}

\* VALID_SYMBOL_RE.match(s) is not None, for ^[a-zA-Z0-9_\-\+\.]+$ : in
\* Python, $ matches at the end of the string and also just before a newline
\* that is the string's last character.
VALID_SYMBOL_RE_match(s) ==
    \E n \in 1..Len(s) :
        /\ \A i \in 1..n : SymbolClass(s[i])
        /\ \/ n = Len(s)
           \/ (n = Len(s) - 1 /\ s[Len(s)] = ASCII_NEWLINE)

is_symbol_char(c) == VALID_SYMBOL_RE_match(<<c>>)

\* the value None where a str is expected: no str holds the code point -1
None == <<NoChar>>

NoExc == [cls |-> "", msg |-> ""]
SyntaxError(m) == [cls |-> "SyntaxError", msg |-> m]
EOFError(m) == [cls |-> "EOFError", msg |-> m]
ValueError(m) == [cls |-> "ValueError", msg |-> m]

-----------------------------------------------------------------------------
(* The input source: io.StringIO / io.BytesIO, or any stream whose read(n)  *)
(* may return fewer than n characters.  cuts lists the lengths of the next  *)
(* short reads; with cuts = <<>> read(n) returns all it can.                *)

NewStream(s, binary, cuts) == [data |-> s, binary |-> binary, cuts |-> cuts]

\* instream.read(n)
StreamRead(st, n) ==
    LET k0 == Min(n, Len(st.data))
        k == IF st.cuts = <<>> THEN k0 ELSE Min(k0, Head(st.cuts))
    IN  [chunk |-> SubSeq(st.data, 1, k),
         st |-> [st EXCEPT !.data = SubSeq(st.data, k + 1, Len(st.data)),
                           !.cuts = IF st.cuts = <<>> THEN <<>> ELSE Tail(st.cuts)]]

-----------------------------------------------------------------------------
(* How a method call is written.  A call returns a record [L, v, exc] (or  *)
(* [P, v, exc], [W, ...] for the parser and the writer): the object after  *)
(* the call, the value returned, and the exception raised (NoExc when the  *)
(* call returned).  Bind(r, K) is "r; then K": an exception raised by r    *)
(* propagates, K is not run.                                               *)

Ret(L, v) == [L |-> L, v |-> v, exc |-> NoExc]
Raise(L, e) == [L |-> L, v |-> None, exc |-> e]
Bind(r, K(_)) == IF r.exc # NoExc THEN r ELSE K(r)
Let(x, K(_)) == K(x)

-----------------------------------------------------------------------------
(* class Lexer                                                              *)

\* Lexer.__init__
NewLexer(instream) ==
    [instream |-> instream, buf |-> <<>>, buf_index |-> 0, root |-> 0,
     binary |-> FALSE, error |-> FALSE]

\* the characters the lexer has not consumed yet (history, for positions)
Unread(L) ==
    (IF L.buf_index < Len(L.buf)
     THEN SubSeq(L.buf, L.buf_index + 1, Len(L.buf)) ELSE <<>>)
    \o L.instream.data

\* Lexer.syntax_assert
syntax_assert(L, error_if_false, error_message) ==
    IF ~error_if_false
    THEN Raise([L EXCEPT !.error = TRUE], SyntaxError(error_message))
    ELSE Ret(L, None)

\* Lexer.refill_buffer: v is the bool returned
refill_buffer(L) ==
    IF L.buf_index < Len(L.buf) THEN Ret(L, TRUE)
    ELSE Let(StreamRead(L.instream, READ_SIZE), LAMBDA r :
         IF Len(r.chunk) = 0
         THEN Ret([L EXCEPT !.buf = r.chunk, !.instream = r.st], FALSE)
         ELSE Ret([L EXCEPT !.buf = r.chunk, !.instream = r.st,
                            !.binary = r.st.binary, !.buf_index = 0], TRUE))

\* peek_next_char taking the first chunk read for the whole input
peek_next_char_one_read(L) ==
    IF L.buf # <<>> /\ L.buf_index >= Len(L.buf)
    THEN Ret(L, [ok |-> FALSE, c |-> NoChar])
    ELSE Let(refill_buffer(L), LAMBDA r :
         IF ~r.v THEN Ret(r.L, [ok |-> FALSE, c |-> NoChar])
         ELSE Ret(r.L, [ok |-> TRUE, c |-> r.L.buf[r.L.buf_index + 1]]))

\* Lexer.peek_next_char: v is [ok, c]
peek_next_char(L) ==
    Let(refill_buffer(L), LAMBDA r :
        IF ~r.v THEN Ret(r.L, [ok |-> FALSE, c |-> NoChar])
        ELSE Ret(r.L, [ok |-> TRUE, c |-> r.L.buf[r.L.buf_index + 1]]))

\* Lexer.read_next_char: v is the character
read_next_char(L) ==
    Let(peek_next_char(L), LAMBDA p :
        Bind(syntax_assert(p.L, p.v.ok, ERROR_EOF), LAMBDA a :
             Ret([a.L EXCEPT !.buf_index = @ + 1], p.v.c)))

\* Lexer.read_escape_sequence: v is the character
read_escape_sequence(L) ==
    Bind(read_next_char(L), LAMBDA r :
    IF SIMPLE_ESCAPES(r.v) # NoChar THEN Ret(r.L, SIMPLE_ESCAPES(r.v))
    ELSE
    Bind(syntax_assert(r.L, r.v = ASCII_X, "unknown string escape: \\%c"), LAMBDA a :
    Bind(read_next_char(a.L), LAMBDA d1 :
    Bind(read_next_char(d1.L), LAMBDA d2 :
    Let(IntBase16(d1.v, d2.v), LAMBDA n :
    Bind(syntax_assert(d2.L, n.ok,
            "\\x sequence must be followed by two hexadecimal characters"), LAMBDA a1 :
    Bind(syntax_assert(a1.L, n.v # 0,
            "NUL byte not allowed in \\x escape sequence."), LAMBDA a2 :
    Bind(syntax_assert(a2.L, n.v < 32,
            "\\x escape sequence can only be used for control characters (ASCII 0x01-0x1f range)"),
         LAMBDA a3 : Ret(a3.L, n.v)))))))))

\* Lexer.to_string: bytes() and chr() raise ValueError for a negative number
\* (the numbers of s are never too large: they were read from the input)
to_string(L, s) ==
    IF \E i \in 1..Len(s) : s[i] < 0
    THEN IF L.binary THEN Raise(L, ValueError("bytes must be in range(0, 256)"))
         ELSE Raise(L, ValueError("chr() arg not in range(0x110000)"))
    ELSE Ret(L, s)

RECURSIVE skip_comment(_, _)
\* the inner loop of _skip_past_spaces, lines 190-194: v is TRUE when the
\* input ended inside the comment
skip_comment(L, c) ==
    IF c = ASCII_NEWLINE THEN Ret(L, FALSE)
    ELSE Let(peek_next_char(L), LAMBDA p :
             IF ~p.v.ok THEN Ret(p.L, TRUE)
             ELSE skip_comment(read_next_char(p.L).L, p.v.c))

RECURSIVE skip_past_spaces(_)
\* Lexer._skip_past_spaces: v is [tt, c]
skip_past_spaces(L) ==
    Let(peek_next_char(L), LAMBDA p :
    IF ~p.v.ok THEN Ret(p.L, [tt |-> TOKEN_EOF, c |-> NoChar])
    ELSE IF p.v.c = ASCII_SLASH
    THEN Bind(read_next_char(p.L), LAMBDA r1 :
         Bind(read_next_char(r1.L), LAMBDA r2 :
         Bind(syntax_assert(r2.L, r1.v = ASCII_SLASH /\ r2.v = ASCII_SLASH,
                            "syntax error"), LAMBDA a :
         Let(skip_comment(a.L, p.v.c), LAMBDA w :
             IF w.v THEN Ret(w.L, [tt |-> TOKEN_EOF, c |-> NoChar])
             ELSE skip_past_spaces(w.L)))))
    ELSE IF p.L.binary /\ p.v.c = UTF8_BOM[1]
    THEN Bind(read_next_char(p.L), LAMBDA r1 :
         Bind(read_next_char(r1.L), LAMBDA r2 :
         IF r2.v # UTF8_BOM[2] THEN syntax_assert(r2.L, FALSE, "syntax error")
         ELSE Bind(read_next_char(r2.L), LAMBDA r3 :
              Bind(syntax_assert(r3.L, r3.v = UTF8_BOM[3], "syntax error"), LAMBDA a :
                   skip_past_spaces(a.L)))))
    ELSE IF ~p.L.binary /\ p.v.c = BOM
    THEN skip_past_spaces(read_next_char(p.L).L)
    ELSE IF ~IsSpace(p.v.c)
    THEN Ret(p.L, [tt |-> TOKEN_NONE, c |-> p.v.c])
    ELSE skip_past_spaces(read_next_char(p.L).L))

\* _next_string_chunk that never joins: the string ends at its closing quote
next_string_chunk_nojoin(L) ==
    Bind(skip_past_spaces(L), LAMBDA s : Ret(s.L, TOKEN_STRING))

\* Lexer._next_string_chunk: v is the token type returned
next_string_chunk(L) ==
    Bind(skip_past_spaces(L), LAMBDA s :
    IF s.v.tt = TOKEN_EOF THEN Ret(s.L, TOKEN_STRING)
    ELSE IF s.v.tt # TOKEN_NONE THEN Ret(s.L, s.v.tt)
    ELSE IF s.v.c # ASCII_AMPERSAND THEN Ret(s.L, TOKEN_STRING)
    ELSE
    Bind(read_next_char(s.L), LAMBDA r :
    Bind(skip_past_spaces(r.L), LAMBDA s2 :
    Bind(syntax_assert(s2.L, s2.v.tt = TOKEN_NONE /\ s2.v.c = ASCII_QUOTES,
                       "quoted string should follow '&' operator"), LAMBDA a :
    Bind(read_next_char(a.L), LAMBDA r2 : Ret(r2.L, TOKEN_NONE))))))

RECURSIVE read_string_loop(_, _)
\* the loop of Lexer.read_string, lines 149-162: v is result_chars
read_string_loop(L, result_chars) ==
    Bind(read_next_char(L), LAMBDA r :
    IF r.v = ASCII_QUOTES
    THEN Bind(next_string_chunk(r.L), LAMBDA n :
              IF n.v # TOKEN_NONE THEN Ret(n.L, result_chars)
              ELSE read_string_loop(n.L, result_chars))
    ELSE IF r.v = ASCII_BACKSLASH
    THEN Bind(read_escape_sequence(r.L), LAMBDA e :
              read_string_loop(e.L, Append(result_chars, e.v)))
    ELSE Bind(syntax_assert(r.L, r.v >= 32,
                  "control character not allowed inside string (ASCII char 0x%02x)"),
              LAMBDA a : read_string_loop(a.L, Append(result_chars, r.v))))

\* Lexer.read_string: v is the string
read_string(L) ==
    Bind(read_string_loop(L, <<>>), LAMBDA r : to_string(r.L, r.v))

RECURSIVE read_symbol_loop(_, _)
\* the loop of Lexer.read_symbol, lines 170-176: v is result_chars
read_symbol_loop(L, result_chars) ==
    Let(peek_next_char(L), LAMBDA p :
        IF ~p.v.ok \/ ~is_symbol_char(p.v.c) THEN Ret(p.L, result_chars)
        ELSE read_symbol_loop(read_next_char(p.L).L, Append(result_chars, p.v.c)))

\* Lexer.read_symbol: v is the string
read_symbol(L, first) ==
    Bind(syntax_assert(L, is_symbol_char(first),
                       "unknown token: not valid symbol character"), LAMBDA a :
    Bind(read_symbol_loop(a.L, <<first>>), LAMBDA r : to_string(r.L, r.v)))

Token(tt, value) == [tt |-> tt, value |-> value]

\* Lexer.do_read_next_token: v is the pair (token type, value)
do_read_next_token(L) ==
    Bind(skip_past_spaces(L), LAMBDA s :
    IF s.v.tt # TOKEN_NONE THEN Ret(s.L, Token(s.v.tt, None))
    ELSE
    Bind(read_next_char(s.L), LAMBDA r :
    IF r.v = ASCII_COLON THEN Ret(r.L, Token(TOKEN_COLON, None))
    ELSE IF r.v = ASCII_OPEN_BRACE THEN Ret(r.L, Token(TOKEN_OPEN_BRACE, None))
    ELSE IF r.v = ASCII_CLOSE_BRACE THEN Ret(r.L, Token(TOKEN_CLOSE_BRACE, None))
    ELSE IF r.v = ASCII_QUOTES
    THEN Bind(read_string(r.L), LAMBDA q : Ret(q.L, Token(TOKEN_STRING, q.v)))
    ELSE
    Bind(syntax_assert(r.L, r.v # ASCII_AMPERSAND,
            "'&' operator can only be used to join quoted strings"), LAMBDA a :
    Bind(read_symbol(a.L, r.v), LAMBDA y : Ret(y.L, Token(TOKEN_STRING, y.v))))))

\* read_next_token with the test of the sticky error flag left out
read_next_token_unguarded(L) == do_read_next_token(L)

\* Lexer.read_next_token: v is the pair (token type, value)
read_next_token(L) ==
    IF L.error THEN Ret(L, Token(TOKEN_EOF, None))
    ELSE do_read_next_token(L)

-----------------------------------------------------------------------------
(* class YoctonObject.  A parser state P holds the shared Lexer and every  *)
(* YoctonObject created so far; an object is named by its index in         *)
(* P.nodes, and 0 stands for None.  Beside the three attributes of the     *)
(* class (parent, child, done) a node carries history fields that no       *)
(* operator reads to decide anything: open (how many characters were       *)
(* unread when the node was created, just after its '{'), idx (which       *)
(* property of its parent it is the value of) and yields (the properties   *)
(* its next_prop has returned so far).  P.log is history too: one entry    *)
(* per token that next_prop read at line 281.                              *)

NoNode == 0

RetP(P, v) == [P |-> P, v |-> v, exc |-> NoExc]
RaiseP(P, e) == [P |-> P, v |-> None, exc |-> e]

\* a call r of a method of self.lexer, seen from the parser
OnLexer(P, r) == [P |-> [P EXCEPT !.lexer = r.L], v |-> r.v, exc |-> r.exc]

\* YoctonProperty(name, value), and None where next_prop returns None
YoctonProperty(name, value, obj) ==
    [isNone |-> FALSE, name |-> name, value |-> value, obj |-> obj]

NoProp == [isNone |-> TRUE, name |-> None, value |-> None, obj |-> NoNode]

\* YoctonObject.__init__: v is the new object
NewObject(P, parent) ==
    RetP([P EXCEPT !.nodes = Append(@, [parent |-> parent, child |-> NoNode,
                                        done |-> FALSE,
                                        open |-> Len(Unread(P.lexer)),
                                        idx |-> IF parent = NoNode THEN 0
                                                ELSE Len(P.nodes[parent].yields) + 1,
                                        yields |-> <<>>]),
                   !.lexer.root = IF parent = NoNode THEN Len(P.nodes) + 1 ELSE @],
         Len(P.nodes) + 1)

\* parse(fp)
parse(fp) == NewObject([lexer |-> NewLexer(fp), nodes |-> <<>>, log |-> <<>>], NoNode).P

\* parses(s): io.StringIO(s) for a str, io.BytesIO(s) for bytes
parses(s, binary) == parse(NewStream(s, binary, <<>>))

\* the '{' branch with the new object never made the current child
open_child_unlinked(P, self) ==
    Let(NewObject(P, self), LAMBDA o : RetP(o.P, [value |-> None, obj |-> o.v]))

\* the '{' branch of parse_next_prop, lines 270-272: v is [value, obj]
open_child(P, self) ==
    Let(NewObject(P, self), LAMBDA o :
        RetP([o.P EXCEPT !.nodes[self].child = o.v], [value |-> None, obj |-> o.v]))

\* parse_next_prop taking whatever token follows the ':' as the value
parse_next_prop_anyvalue(P, self) ==
    Bind(OnLexer(P, read_next_token(P.lexer)), LAMBDA t :
    IF t.v.tt = TOKEN_COLON
    THEN Bind(OnLexer(t.P, read_next_token(t.P.lexer)), LAMBDA u :
              RetP(u.P, [value |-> u.v.value, obj |-> NoNode]))
    ELSE IF t.v.tt = TOKEN_OPEN_BRACE THEN open_child(t.P, self)
    ELSE RaiseP(t.P, SyntaxError("':' or '{' expected to follow property name")))

\* YoctonObject.parse_next_prop: v is [value, obj], the str or the object
parse_next_prop(P, self) ==
    Bind(OnLexer(P, read_next_token(P.lexer)), LAMBDA t :
    IF t.v.tt = TOKEN_COLON
    THEN Bind(OnLexer(t.P, read_next_token(t.P.lexer)), LAMBDA u :
              IF u.v.tt # TOKEN_STRING
              THEN RaiseP(u.P, SyntaxError("string expected to follow ':'"))
              ELSE RetP(u.P, [value |-> u.v.value, obj |-> NoNode]))
    ELSE IF t.v.tt = TOKEN_OPEN_BRACE THEN open_child(t.P, self)
    ELSE RaiseP(t.P, SyntaxError("':' or '{' expected to follow property name")))

RECURSIVE next_prop(_, _)
RECURSIVE skip_forward(_, _)

\* skip_forward that drops the child without draining it
skip_forward_nodrain(P, self) ==
    RetP([P EXCEPT !.nodes[self].child = NoNode], None)

\* skip_forward with an "if" for its "while": one next_prop on the child
skip_forward_once(P, self) ==
    IF P.nodes[self].child # NoNode /\ ~P.nodes[P.nodes[self].child].done
    THEN Bind(next_prop(P, P.nodes[self].child), LAMBDA r :
              RetP([r.P EXCEPT !.nodes[self].child = NoNode], None))
    ELSE RetP([P EXCEPT !.nodes[self].child = NoNode], None)

\* YoctonObject.skip_forward
skip_forward(P, self) ==
    IF P.nodes[self].child # NoNode /\ ~P.nodes[P.nodes[self].child].done
    THEN Bind(next_prop(P, P.nodes[self].child), LAMBDA r : skip_forward(r.P, self))
    ELSE RetP([P EXCEPT !.nodes[self].child = NoNode], None)

\* history: the token t that self read at line 281, and the lexer before
Logged(P, before, t, self) ==
    [P EXCEPT !.log = Append(@, [node |-> self, tt |-> t.tt,
                                 from |-> Len(Unread(before)),
                                 to |-> Len(Unread(P.lexer))])]

\* the '}' branch without the test for the root
at_close_brace_anywhere(P, self) ==
    RetP([P EXCEPT !.nodes[self].done = TRUE], NoProp)

\* the '}' branch of next_prop, lines 285-290
at_close_brace(P, self) ==
    IF self = P.lexer.root
    THEN RaiseP(P, SyntaxError("closing brace '}' not expected at top level"))
    ELSE RetP([P EXCEPT !.nodes[self].done = TRUE], NoProp)

\* the end-of-input branch without the test for the root
at_eof_anywhere(P, self) ==
    RetP([P EXCEPT !.nodes[self].done = TRUE], NoProp)

\* the end-of-input branch raising for the root too
at_eof_always_raises(P, self) == RaiseP(P, EOFError(ERROR_EOF))

\* the end-of-input branch returning None for a nested object, not marked done
at_eof_returns_none(P, self) == RetP(P, NoProp)

\* the end-of-input branch of next_prop, lines 291-295
at_eof(P, self) ==
    IF self # P.lexer.root
    THEN RaiseP(P, EOFError(ERROR_EOF))
    ELSE RetP([P EXCEPT !.nodes[self].done = TRUE], NoProp)

\* lines 281-296 of next_prop: the token read and what follows from it
next_prop_read(P, self) ==
    Bind(OnLexer(P, read_next_token(P.lexer)), LAMBDA t :
    Let(Logged(t.P, P.lexer, t.v, self), LAMBDA P1 :
    IF t.v.tt = TOKEN_STRING
    THEN Bind(parse_next_prop(P1, self), LAMBDA v :
         Let(YoctonProperty(t.v.value, v.v.value, v.v.obj), LAMBDA y :
             RetP([v.P EXCEPT !.nodes[self].yields = Append(@, y)], y)))
    ELSE IF t.v.tt = TOKEN_CLOSE_BRACE THEN at_close_brace(P1, self)
    ELSE IF t.v.tt = TOKEN_EOF THEN at_eof(P1, self)
    ELSE RaiseP(P1, SyntaxError("expected start of next property"))))

\* next_prop without the test of the done flag
next_prop_nodonecheck(P, self) ==
    Bind(skip_forward(P, self), LAMBDA s : next_prop_read(s.P, self))

\* YoctonObject.next_prop: v is the YoctonProperty, or NoProp for None
next_prop(P, self) ==
    IF P.nodes[self].done THEN RetP(P, NoProp)
    ELSE Bind(skip_forward(P, self), LAMBDA s : next_prop_read(s.P, self))

-----------------------------------------------------------------------------
(* The tree adapters.  A tree is a sequence of items [name, t, v]: t is    *)
(* "str" and v the string, or t is "obj" and v the nested sequence.        *)

StrItem(name, s) == [name |-> name, t |-> "str", v |-> s]
ObjItem(name, items) == [name |-> name, t |-> "obj", v |-> items]

RECURSIVE read_obj(_, _, _)

\* read_obj keeping one property per name, as a dict would
read_obj_merging(P, o, result) ==
    Bind(next_prop(P, o), LAMBDA r :
    IF r.v.isNone THEN RetP(r.P, result)
    ELSE IF \E i \in 1..Len(result) : result[i].name = r.v.name
    THEN read_obj(r.P, o, result)
    ELSE IF r.v.obj # NoNode
    THEN Bind(read_obj(r.P, r.v.obj, <<>>), LAMBDA sub :
              read_obj(sub.P, o, Append(result, ObjItem(r.v.name, sub.v))))
    ELSE read_obj(r.P, o, Append(result, StrItem(r.v.name, r.v.value))))

\* read_obj(o) in load(), with the list built so far: v is the list
read_obj(P, o, result) ==
    Bind(next_prop(P, o), LAMBDA r :
    IF r.v.isNone THEN RetP(r.P, result)
    ELSE IF r.v.obj # NoNode
    THEN Bind(read_obj(r.P, r.v.obj, <<>>), LAMBDA sub :
              read_obj(sub.P, o, Append(result, ObjItem(r.v.name, sub.v))))
    ELSE read_obj(r.P, o, Append(result, StrItem(r.v.name, r.v.value))))

\* load(fp): v is the tree
load(fp) == Let(parse(fp), LAMBDA P : read_obj(P, P.lexer.root, <<>>))

\* loads(s)
loads(s, binary) == load(NewStream(s, binary, <<>>))

\* what the caller of load() gets: the tree, or the exception
Outcome(r) == [exc |-> r.exc, result |-> IF r.exc = NoExc THEN r.v ELSE <<>>]

-----------------------------------------------------------------------------
(* class YoctonWriter.  A writer W holds indent_level and its outstream:   *)
(* out is all that was written to it, flushed how much of it flush() has   *)
(* pushed to the sink.                                                     *)

\* YoctonWriter.__init__ on an empty stream
NewWriter == [out |-> <<>>, flushed |-> 0, indent_level |-> 0]

\* outstream.write(s)
stream_write(W, s) == [W EXCEPT !.out = @ \o s]

\* outstream.flush()
stream_flush(W) == [W EXCEPT !.flushed = Len(W.out)]

\* "%x" of one hexadecimal digit
HexChar(d) == IF d < 10 THEN 48 + d ELSE 87 + d

\* what the loop of write_string writes for one character, lines 312-318
escape_char(c) ==
    IF REVERSE_ESCAPES(c) # <<>> THEN REVERSE_ESCAPES(c)
    ELSE IF c >= 32 THEN <<c>>
    ELSE <<ASCII_BACKSLASH, ASCII_X, HexChar(c \div 16), HexChar(c % 16)>>

\* YoctonWriter.write_string, for a str s (str(s) is s)
write_string(W, s) ==
    IF VALID_SYMBOL_RE_match(s) THEN stream_write(W, s)
    ELSE stream_write(W, <<ASCII_QUOTES>>
                         \o Concat([i \in 1..Len(s) |-> escape_char(s[i])])
                         \o <<ASCII_QUOTES>>)

\* YoctonWriter.write_indent
write_indent(W) == stream_write(W, [i \in 1..W.indent_level |-> 9])

\* write_property and end without their flush
flush_never(W) == W

\* the flush that ends write_property and end
flush_at_top(W) == IF W.indent_level = 0 THEN stream_flush(W) ELSE W

\* YoctonWriter.write_property
write_property(W, name, value) ==
    flush_at_top(
        stream_write(
            write_string(
                stream_write(write_string(write_indent(W), name), <<ASCII_COLON, 32>>),
                value),
            <<ASCII_NEWLINE>>))

\* YoctonWriter.begin_subobject
begin_subobject(W, name) ==
    [stream_write(write_string(write_indent(W), name),
                  <<32, ASCII_OPEN_BRACE, ASCII_NEWLINE>>)
        EXCEPT !.indent_level = @ + 1]

\* end without the test for depth zero
end_unguarded(W) ==
    flush_at_top(
        stream_write(write_indent([W EXCEPT !.indent_level = @ - 1]),
                     <<ASCII_CLOSE_BRACE, ASCII_NEWLINE>>))

\* YoctonWriter.end
end(W) ==
    IF W.indent_level = 0 THEN W
    ELSE flush_at_top(
             stream_write(write_indent([W EXCEPT !.indent_level = @ - 1]),
                          <<ASCII_CLOSE_BRACE, ASCII_NEWLINE>>))

RECURSIVE write_obj(_, _)
\* write_obj(o) in dump(), for o a list of (name, value) pairs
write_obj(W, o) ==
    IF o = <<>> THEN W
    ELSE IF Head(o).t = "str"
    THEN write_obj(write_property(W, Head(o).name, Head(o).v), Tail(o))
    ELSE write_obj(end(write_obj(begin_subobject(W, Head(o).name), Head(o).v)), Tail(o))

\* dump(obj, fp), fp empty: the writer when dump returns
dump(obj) == write_obj(NewWriter, obj)

\* dumps(obj)
dumps(obj) == stream_flush(dump(obj)).out

-----------------------------------------------------------------------------
(* The inputs of the parser specification.  A document is written as a     *)
(* sequence of fragments: a property "a:1 ", the opening "b{" of a nested  *)
(* object, a closing "}".  Every sequence whose braces balance is a        *)
(* well-formed document; replacing one fragment by another piece of text   *)
(* gives the ill-formed ones (and some other well-formed ones).            *)

MaxFrags == 6

\* property names repeat (a, b, a, ...); values differ at every position
NameAt(i) == IF i % 2 = 1 THEN Str(<<"a">>) ELSE Str(<<"b">>)
ValueAt(i) == <<OrdOf("0") + i>>

Fragment(kind, i) ==
    CASE kind = "prop" -> NameAt(i) \o Str(<<":">>) \o ValueAt(i) \o Str(<<" ">>)
      [] kind = "open" -> NameAt(i) \o Str(<<"{">>)
      [] kind = "close" -> Str(<<"}">>)

Replacements ==
    { <<>>,
      Str(<<"x", " ">>),
      Str(<<"a", ":", " ">>),
      Str(<<":", " ">>),
      Str(<<"{">>),
      Str(<<"}">>),
      Str(<<"\"", "q">>),
      Str(<<"&", " ">>),
      Str(<<"\"", "u", " ", "v", "\"", ":", "\"", "w", "\\", "n", "\"", " ">>),
      Str(<<"/", "/", "c", "\n">>),
      Str(<<"a", ":", "{">>),
      Str(<<"a", "&">>) }

RECURSIVE Depths(_, _)
\* the nesting depth after each prefix of a fragment sequence
Depths(kinds, d) ==
    IF kinds = <<>> THEN <<d>>
    ELSE <<d>> \o Depths(Tail(kinds),
                         CASE Head(kinds) = "open" -> d + 1
                           [] Head(kinds) = "close" -> d - 1
                           [] OTHER -> d)

Balanced(kinds) ==
    LET ds == Depths(kinds, 0)
    IN  /\ \A i \in 1..Len(ds) : ds[i] >= 0
        /\ ds[Len(ds)] = 0

\* the balanced fragment sequences of at most m fragments
BalancedSeqsUpTo(m) ==
    UNION { { ks \in [1..n -> {"prop", "open", "close"}] : Balanced(ks) } : n \in 0..m }

BalancedSeqs == BalancedSeqsUpTo(MaxFrags)

\* the text of a fragment sequence, fragment at (when at > 0) replaced by repl
Render(kinds, at, repl) ==
    Concat([i \in 1..Len(kinds) |-> IF i = at THEN repl ELSE Fragment(kinds[i], i)])

\* the documents of at most m fragments
DocumentsUpTo(m) ==
    { Render(ks, 0, <<>>) : ks \in BalancedSeqsUpTo(m) }
    \cup UNION { { Render(ks, i, r) : i \in 1..Len(ks), r \in Replacements }
                 : ks \in BalancedSeqsUpTo(m) }

Documents == DocumentsUpTo(MaxFrags)

RECURSIVE lex_all(_, _)
\* the tokens of a text: read_next_token called until end of input or an error
lex_all(L, acc) ==
    Let(read_next_token(L), LAMBDA r :
        IF r.exc # NoExc THEN [toks |-> acc, exc |-> r.exc]
        ELSE IF r.v.tt = TOKEN_EOF THEN [toks |-> acc, exc |-> NoExc]
        ELSE lex_all(r.L, Append(acc, [tt |-> r.v.tt, value |-> r.v.value,
                                        to |-> Len(Unread(r.L))])))

TokensOf(s, binary) == lex_all(NewLexer(NewStream(s, binary, <<>>)), <<>>)

Unused == "unused"

-----------------------------------------------------------------------------
(* Specification Spec: a caller holding the root and every object that     *)
(* next_prop has returned or created so far calls next_prop on any of      *)
(* them, in any order.                                                     *)

Init ==
    /\ stack = Unused /\ reading = Unused
    /\ doc \in Documents
    /\ lexer = parses(doc, FALSE).lexer
    /\ nodes = parses(doc, FALSE).nodes
    /\ log = <<>>
    /\ last = [ret |-> NoProp, exc |-> NoExc]
    /\ called = NoNode
    /\ raisedBefore = FALSE
    /\ eager = Outcome(loads(doc, FALSE))
    /\ toks = TokensOf(doc, FALSE)
    /\ tree = Unused /\ text = Unused /\ back = Unused /\ phase = Unused
    /\ writer = Unused

\* the variables after a call of next_prop on n that ended as r; last.ret is
\* what the caller got, None too when the call raised
Called(n, r) ==
    /\ lexer' = r.P.lexer
    /\ nodes' = r.P.nodes
    /\ log' = r.P.log
    /\ last' = [ret |-> IF r.exc = NoExc THEN r.v ELSE NoProp, exc |-> r.exc]
    /\ called' = n
    /\ raisedBefore' = (raisedBefore \/ last.exc # NoExc)
    /\ UNCHANGED <<stack, reading, doc, eager, toks, tree, text, back, phase, writer>>

\* one call of obj.next_prop() by the caller
NextProp(n) == Called(n, next_prop([lexer |-> lexer, nodes |-> nodes, log |-> <<>>], n))

Next == \E n \in 1..Len(nodes) : NextProp(n)

Spec == Init /\ [][Next]_vars

-----------------------------------------------------------------------------
(* Specification SpecLex: a caller reads tokens from a Lexer, one           *)
(* read_next_token call per step, from a str or a bytes stream.            *)

MaxLexFrags == 3

LexFragments(binary) ==
    { Str(<<"a", "b">>),
      Str(<<":">>),
      Str(<<"{">>),
      Str(<<"}">>),
      Str(<<" ">>),
      Str(<<"\"", "a", " ", "b", "\"">>),
      Str(<<"\"", "\\", "n", "\"">>),
      Str(<<"\"">>),
      Str(<<"&">>),
      Str(<<"/", "/", "c", "\n">>),
      IF binary THEN Str(<<"xEF", "xBB", "xBF">>) ELSE Str(<<"BOM">>) }

LexDocuments(binary) ==
    UNION { { Concat(fs) : fs \in [1..n -> LexFragments(binary)] } : n \in 0..MaxLexFrags }

InitLex ==
    /\ stack = Unused /\ reading = Unused
    /\ \E binary \in BOOLEAN :
          /\ doc \in LexDocuments(binary)
          /\ lexer = NewLexer(NewStream(doc, binary, <<>>))
    /\ last = [ret |-> Token(TOKEN_NONE, None), exc |-> NoExc]
    /\ raisedBefore = FALSE
    /\ nodes = Unused /\ log = Unused /\ called = Unused /\ eager = Unused
    /\ toks = Unused /\ tree = Unused /\ text = Unused /\ back = Unused
    /\ phase = Unused /\ writer = Unused

\* the variables after a call of read_next_token that ended as r
TokenRead(r) ==
    /\ lexer' = r.L
    /\ last' = [ret |-> IF r.exc = NoExc THEN r.v ELSE Token(TOKEN_NONE, None),
                 exc |-> r.exc]
    /\ raisedBefore' = (raisedBefore \/ last.exc # NoExc)
    /\ UNCHANGED <<stack, reading, doc, nodes, log, called, eager, toks, tree, text, back, phase, writer>>

\* one call of lexer.read_next_token() by the caller
ReadNextToken == TokenRead(read_next_token(lexer))

NextLex == ReadNextToken

SpecLex == InitLex /\ [][NextLex]_vars

-----------------------------------------------------------------------------
(* Specification SpecWriter: a caller drives a YoctonWriter on an empty    *)
(* stream, one method call per step.                                       *)

MaxWrites == 3

WriterStrings ==
    { <<>>,
      Str(<<"a">>),
      Str(<<"-", "1", ".", "5">>),
      Str(<<"a", " ", "b">>),
      Str(<<"b", "\n">>),
      Str(<<"\n">>),
      Str(<<"q", "\"">>),
      Str(<<"\\", "t">>),
      Str(<<"\t">>),
      Str(<<"{", ":", "}">>),
      Str(<<"SOH">>) }

InitWriter ==
    /\ stack = Unused /\ reading = Unused
    /\ writer = NewWriter
    /\ last = [op |-> "", arg |-> <<>>, emitted |-> <<>>]
    /\ called = 0
    /\ doc = Unused /\ lexer = Unused /\ nodes = Unused /\ log = Unused
    /\ raisedBefore = Unused /\ eager = Unused /\ toks = Unused
    /\ tree = Unused /\ text = Unused /\ back = Unused /\ phase = Unused

\* what a call appended to the stream
Emitted(W) == SubSeq(W.out, Len(writer.out) + 1, Len(W.out))

WriterStep(op, arg, W) ==
    /\ called < MaxWrites
    /\ called' = called + 1
    /\ writer' = W
    /\ last' = [op |-> op, arg |-> arg, emitted |-> Emitted(W)]
    /\ UNCHANGED <<stack, reading, doc, lexer, nodes, log, raisedBefore, eager, toks, tree, text, back, phase>>

WriteString == \E s \in WriterStrings : WriterStep("write_string", s, write_string(writer, s))

WriteProperty ==
    \E n \in {Str(<<"a">>), Str(<<"a", " ", "b">>)}, v \in WriterStrings :
        WriterStep("write_property", v, write_property(writer, n, v))

BeginSubobject ==
    \E n \in {Str(<<"a">>), Str(<<"a", " ", "b">>)} :
        WriterStep("begin_subobject", n, begin_subobject(writer, n))

End == WriterStep("end", <<>>, end(writer))

NextWriter == WriteString \/ WriteProperty \/ BeginSubobject \/ End

SpecWriter == InitWriter /\ [][NextWriter]_vars

-----------------------------------------------------------------------------
(* Specification SpecRT: a tree is written with dumps() and the text read  *)
(* back with loads().                                                      *)

MaxItems == 2

RTNames == { Str(<<"a">>), Str(<<"a", " ", "b">>), Str(<<"b", "\n">>) }

RTStrings ==
    { <<>>,
      Str(<<"1">>),
      Str(<<"a", " ", "b">>),
      Str(<<"b", "\n">>),
      Str(<<"\n", "b">>),
      Str(<<"q", "\"", "\\">>),
      Str(<<"\t", "{", ":", "}">>),
      Str(<<"SOH">>) }

\* the lists of at most n items drawn from a set
ListsOf(items, n) == UNION { [1..k -> items] : k \in 0..n }

StrItems == { StrItem(n, v) : n \in RTNames, v \in RTStrings }

\* nested objects hold at most one property, a string or an empty object
InnerItems == StrItems \cup { ObjItem(n, <<>>) : n \in RTNames }
InnerLists == ListsOf(InnerItems, 1)

RTTrees == ListsOf(StrItems \cup { ObjItem(n, l) : n \in RTNames, l \in InnerLists }, MaxItems)

InitRT ==
    /\ stack = Unused /\ reading = Unused
    /\ tree \in RTTrees
    /\ text = <<>>
    /\ back = [exc |-> NoExc, result |-> <<>>]
    /\ phase = "start"
    /\ doc = Unused /\ lexer = Unused /\ nodes = Unused /\ log = Unused
    /\ last = Unused /\ called = Unused /\ raisedBefore = Unused
    /\ eager = Unused /\ toks = Unused /\ writer = Unused

\* text = dumps(tree)
Dumps ==
    /\ phase = "start"
    /\ text' = dumps(tree)
    /\ phase' = "dumped"
    /\ UNCHANGED <<stack, reading, doc, lexer, nodes, log, last, called, raisedBefore, eager, toks,
                   tree, back, writer>>

\* back = loads(text)
Loads ==
    /\ phase = "dumped"
    /\ back' = Outcome(loads(text, FALSE))
    /\ phase' = "loaded"
    /\ UNCHANGED <<stack, reading, doc, lexer, nodes, log, last, called, raisedBefore, eager, toks,
                   tree, text, writer>>

NextRT == Dumps \/ Loads

SpecRT == InitRT /\ [][NextRT]_vars

-----------------------------------------------------------------------------
(* What the claims speak of: the grammar of section 6 of the               *)
(* specification, recognised on the token sequence independently of        *)
(* YoctonObject.                                                           *)

RECURSIVE Grammar(_, _, _)
\* Runs the grammar  document := property*, property := name (':' string |
\* '{' property* '}')  over token types: [ok, depth, st], where ok says no
\* token was out of place, depth counts the unmatched '{' at the end and st
\* is what the grammar expects next ("start": a property or a '}').
Grammar(ts, depth, st) ==
    IF ts = <<>> THEN [ok |-> TRUE, depth |-> depth, st |-> st]
    ELSE LET tt == Head(ts).tt
         IN  CASE st = "start" /\ tt = TOKEN_STRING -> Grammar(Tail(ts), depth, "name")
               [] st = "start" /\ tt = TOKEN_CLOSE_BRACE /\ depth > 0 ->
                      Grammar(Tail(ts), depth - 1, "start")
               [] st = "name" /\ tt = TOKEN_COLON -> Grammar(Tail(ts), depth, "colon")
               [] st = "name" /\ tt = TOKEN_OPEN_BRACE -> Grammar(Tail(ts), depth + 1, "start")
               [] st = "colon" /\ tt = TOKEN_STRING -> Grammar(Tail(ts), depth, "start")
               [] OTHER -> [ok |-> FALSE, depth |-> depth, st |-> st]

Parsed == Grammar(toks.toks, 0, "start")

\* the input is a well-formed document
WellFormed ==
    /\ toks.exc = NoExc
    /\ Parsed.ok /\ Parsed.depth = 0 /\ Parsed.st = "start"

\* the input follows the grammar up to its end, which comes inside a nested object
UnclosedAtEnd ==
    /\ toks.exc = NoExc
    /\ Parsed.ok /\ Parsed.depth > 0

\* the index in toks of the token after which u characters were left unread
TokenEndingAt(u) == CHOOSE j \in 1..Len(toks.toks) : toks.toks[j].to = u

RECURSIVE MatchingClose(_, _)
\* the index of the '}' that closes the object opened before token j (depth d
\* objects are open at j), or 0
MatchingClose(j, d) ==
    IF j > Len(toks.toks) THEN 0
    ELSE IF toks.toks[j].tt = TOKEN_CLOSE_BRACE
         THEN IF d = 1 THEN j ELSE MatchingClose(j + 1, d - 1)
    ELSE IF toks.toks[j].tt = TOKEN_OPEN_BRACE THEN MatchingClose(j + 1, d + 1)
    ELSE MatchingClose(j + 1, d)

RECURSIVE IsDescendant(_, _, _)
\* node n is a, or lies below a (following the parent attributes)
IsDescendant(ns, n, a) ==
    IF n = a THEN TRUE
    ELSE IF ns[n].parent = NoNode THEN FALSE
    ELSE IsDescendant(ns, ns[n].parent, a)

RECURSIVE PathOf(_)
\* where a node sits in the tree: the property indices from the root down
PathOf(n) ==
    IF nodes[n].parent = NoNode THEN <<>>
    ELSE Append(PathOf(nodes[n].parent), nodes[n].idx)

RECURSIVE SubTree(_, _)
SubTree(t, path) ==
    IF path = <<>> THEN t ELSE SubTree(t[Head(path)].v, Tail(path))

\* what a reader of one object sees of an item of the eager tree, and of a
\* property: the name, whether the value is an object, and a string value
SeenOfItem(it) ==
    [name |-> it.name, isObj |-> it.t = "obj", value |-> IF it.t = "str" THEN it.v ELSE None]
SeenOfProp(y) ==
    [name |-> y.name, isObj |-> y.obj # NoNode, value |-> y.value]

IsPrefix(a, b) == Len(a) <= Len(b) /\ \A i \in 1..Len(a) : a[i] = b[i]

Root == lexer.root

\* the last step was a call of next_prop on p while p's current child still had
\* properties to read
AbandonedChildStep(p) ==
    /\ called' = p
    /\ ~nodes[p].done
    /\ nodes[p].child # NoNode
    /\ ~nodes[nodes[p].child].done

-----------------------------------------------------------------------------
(* The claims                                                              *)

\* C1: for well-formed input, next_prop on a parent whose current child is
\* not done raises nothing, leaves the child and everything below it done,
\* and the token the parent then reads starts right after the '}' matching
\* the child's '{'.
C1_SkipForward ==
    [][\A p \in 1..Len(nodes) :
          (WellFormed /\ AbandonedChildStep(p)) =>
              LET c == nodes[p].child
                  j == MatchingClose(TokenEndingAt(nodes[c].open) + 1, 1)
                  e == log'[Len(log')]
              IN  /\ last'.exc = NoExc
                  /\ \A n \in 1..Len(nodes') : IsDescendant(nodes', n, c) => nodes'[n].done
                  /\ j # 0
                  /\ e.node = p
                  /\ e.from = toks.toks[j].to
                  /\ e.tt = IF j < Len(toks.toks) THEN toks.toks[j + 1].tt ELSE TOKEN_EOF
      ]_vars

\* C1 witness: a call on the root has drained a child and a grandchild that
\* both were open, and then read the root's next property
C1_Witness ==
    /\ WellFormed
    /\ called = Root
    /\ Len(log) >= 4
    /\ \E c, g \in 1..Len(nodes) :
          /\ nodes[c].parent = Root /\ nodes[g].parent = c
          /\ \E k1, k2 \in 1..Len(log) : log[k1].node = g /\ log[k2].node = c /\ k1 < k2
    /\ ~last.ret.isNone

\* C2: for well-formed input load() returns a tree, and under every schedule
\* the properties a node has yielded are the first properties load() found for
\* that node, all of them once the node is done.
C2_LazyAgreesWithEager ==
    WellFormed =>
        /\ eager.exc = NoExc
        /\ \A n \in 1..Len(nodes) :
              LET mine == [i \in 1..Len(nodes[n].yields) |-> SeenOfProp(nodes[n].yields[i])]
                  sub == SubTree(eager.result, PathOf(n))
                  theirs == [i \in 1..Len(sub) |-> SeenOfItem(sub[i])]
              IN  /\ IsPrefix(mine, theirs)
                  /\ nodes[n].done => mine = theirs

\* C2 witness: the root is done after a schedule that abandoned a nested
\* object with unread properties
C2_Witness ==
    /\ WellFormed
    /\ nodes[Root].done
    /\ Len(nodes[Root].yields) >= 2
    /\ \E n \in 1..Len(nodes) : n # Root /\ Len(nodes[n].yields) >= 1
    /\ raisedBefore = FALSE /\ last.exc = NoExc

\* C4: whenever a call raises, the sticky error flag is set
C4_ErrorsSetFlag == last.exc # NoExc => lexer.error

\* C5: after a call has raised, every later call returns None and raises nothing
C5_ErrorSeenOnce == raisedBefore => (last.exc = NoExc /\ last.ret.isNone)

\* C8: done is never reset, and next_prop on a done node returns None, raises
\* nothing, reads nothing from the lexer and changes no node.
C8_ExhaustionIdempotent ==
    [][/\ \A n \in 1..Len(nodes) : nodes[n].done => nodes'[n].done
       /\ \A n \in 1..Len(nodes) :
             (called' = n /\ nodes[n].done) =>
                 /\ last'.ret.isNone /\ last'.exc = NoExc
                 /\ lexer' = lexer
                 /\ nodes' = nodes
                 /\ log' = <<>>
      ]_vars

\* C8 witness: next_prop has just been called on a nested node that was done
C8_Witness ==
    /\ called # NoNode /\ called # Root
    /\ nodes[called].done
    /\ log = <<>>
    /\ last.ret.isNone

\* what load() raises when the input ends inside a nested object: it depends
\* on what the grammar expected there
ErrorAtEnd(st) ==
    CASE st = "start" -> EOFError(ERROR_EOF)
      [] st = "name" -> SyntaxError("':' or '{' expected to follow property name")
      [] st = "colon" -> SyntaxError("string expected to follow ':'")

\* no nested node is marked done by end of input: a nested node that reads
\* end-of-input raises the unexpected-EOF error and stays not done
EofNeverEndsNested ==
    \A k \in 1..Len(log) :
        (log[k].tt = TOKEN_EOF /\ log[k].node # Root) =>
            /\ k = Len(log)
            /\ last.exc = EOFError(ERROR_EOF)
            /\ ~nodes[log[k].node].done

\* C9 as stated: an input that ends inside a nested object makes load() fail
\* with the unexpected-end-of-input error
C9_AsStated == UnclosedAtEnd => eager.exc.msg = ERROR_EOF

\* C9, amended: an input that ends inside a nested object makes load() fail:
\* with the unexpected-end-of-input error when the end comes where a property
\* or '}' is expected, with the error for a missing ':' / '{' or a missing
\* string when it comes right after a name or a ':'.  The root of such an input
\* is never done, and no nested node is ever marked done by end of input.
C9_UnclosedRejected ==
    /\ EofNeverEndsNested
    /\ UnclosedAtEnd =>
          /\ eager.exc = ErrorAtEnd(Parsed.st)
          /\ ~nodes[Root].done

\* C9 witness: on an unclosed input a nested node has read end-of-input
C9_Witness ==
    /\ UnclosedAtEnd
    /\ Len(log) >= 2
    /\ log[Len(log)].tt = TOKEN_EOF /\ log[Len(log)].node # Root
    /\ last.exc = EOFError(ERROR_EOF)

\* C10: a node becomes done only in a call in which it read a '}' itself and is
\* not the root, or read end-of-input itself and is the root; a '}' read by the
\* root raises the top-level error and leaves the root not done.
C10_DoneOnlyByOwnClose ==
    [][/\ \A n \in 1..Len(nodes') :
             ((n > Len(nodes) \/ ~nodes[n].done) /\ nodes'[n].done) =>
                 \E k \in 1..Len(log') :
                     /\ log'[k].node = n
                     /\ \/ (log'[k].tt = TOKEN_CLOSE_BRACE /\ n # Root)
                        \/ (log'[k].tt = TOKEN_EOF /\ n = Root)
       /\ \A k \in 1..Len(log') :
             (log'[k].node = Root /\ log'[k].tt = TOKEN_CLOSE_BRACE) =>
                 /\ last'.exc = SyntaxError("closing brace '}' not expected at top level")
                 /\ ~nodes'[Root].done
      ]_vars

\* C10 witness: the root has read a '}' and raised, after a nested node was
\* closed by its own '}'
C10_Witness ==
    /\ Len(log) >= 1
    /\ log[Len(log)].node = Root /\ log[Len(log)].tt = TOKEN_CLOSE_BRACE
    /\ last.exc # NoExc
    /\ ~nodes[Root].done
    /\ \E n \in 1..Len(nodes) : n # Root /\ nodes[n].done


\* C3: once the sticky error flag is set it stays set, and every
\* read_next_token call from then on returns end-of-input, raises nothing and
\* leaves the Lexer as it was: buffer, read cursor and input source.
C3_StickyError ==
    [][lexer.error =>
          /\ lexer'.error
          /\ last'.ret.tt = TOKEN_EOF /\ last'.exc = NoExc
          /\ lexer' = lexer
      ]_vars

\* C3 witness: after an error, with input still unread, a further call has
\* returned end-of-input
C3_Witness ==
    /\ lexer.error
    /\ raisedBefore
    /\ last.ret.tt = TOKEN_EOF /\ last.exc = NoExc
    /\ Unread(lexer) # <<>>

\* the string is a non-empty run of symbol characters
AllSymbol(str) == str # <<>> /\ \A i \in 1..Len(str) : SymbolClass(str[i])

\* the string holds a space, tab, colon, brace, quote or control character
HasSpecial(str) ==
    \E i \in 1..Len(str) :
        str[i] < 32 \/ str[i] \in {32, ASCII_COLON, ASCII_OPEN_BRACE, ASCII_CLOSE_BRACE, ASCII_QUOTES}

\* C7: write_string emits the string bare exactly when it is a non-empty run
\* of symbol characters; a string holding a space, tab, colon, brace, quote or
\* control character anywhere is emitted between double quotes.
C7_QuotingDecision ==
    last.op = "write_string" =>
        /\ (last.emitted = last.arg) <=> AllSymbol(last.arg)
        /\ HasSpecial(last.arg) =>
              /\ Len(last.emitted) >= 2
              /\ last.emitted[1] = ASCII_QUOTES
              /\ last.emitted[Len(last.emitted)] = ASCII_QUOTES

\* C6: loads(dumps(tree)) returns the tree
C6_RoundTrip ==
    phase = "loaded" => (back.exc = NoExc /\ back.result = tree)

-----------------------------------------------------------------------------
(* C11: duplicate names                                                    *)

RECURSIVE SrcProps(_, _)
\* The properties written in the source from token j up to the '}' that ends
\* the object (or the end of the input), read off the token list alone:
\* [items, next], next the index after that '}'.  For well-formed input.
SrcProps(j, acc) ==
    IF j > Len(toks.toks) \/ toks.toks[j].tt = TOKEN_CLOSE_BRACE
    THEN [items |-> acc, next |-> j + 1]
    ELSE IF toks.toks[j + 1].tt = TOKEN_COLON
    THEN SrcProps(j + 3, Append(acc, StrItem(toks.toks[j].value, toks.toks[j + 2].value)))
    ELSE LET sub == SrcProps(j + 2, <<>>)
         IN  SrcProps(sub.next, Append(acc, ObjItem(toks.toks[j].value, sub.items)))

\* the tree as the source spells it: one item per property, in source order
SourceTree == SrcProps(1, <<>>).items

\* C11: for well-formed input load() returns one item per property of the
\* source, in source order, and every node yields the properties written in
\* its object in that order (all of them once it is done), however many share
\* a name.
C11_DuplicatesPreserved ==
    WellFormed =>
        /\ eager.exc = NoExc
        /\ eager.result = SourceTree
        /\ \A n \in 1..Len(nodes) :
              LET mine == [i \in 1..Len(nodes[n].yields) |-> SeenOfProp(nodes[n].yields[i])]
                  src == SubTree(SourceTree, PathOf(n))
                  theirs == [i \in 1..Len(src) |-> SeenOfItem(src[i])]
              IN  /\ IsPrefix(mine, theirs)
                  /\ nodes[n].done => mine = theirs

\* C11 witness: the root is done and has yielded three properties of one name,
\* with different values
C11_Witness ==
    /\ WellFormed
    /\ nodes[Root].done
    /\ \E i, j, k \in 1..Len(nodes[Root].yields) :
          /\ i < j /\ j < k
          /\ nodes[Root].yields[i].name = nodes[Root].yields[j].name
          /\ nodes[Root].yields[j].name = nodes[Root].yields[k].name
          /\ nodes[Root].yields[i].value # nodes[Root].yields[j].value
    /\ Len(eager.result) = Len(nodes[Root].yields)

-----------------------------------------------------------------------------
(* Specification SpecChain: the Lexer reads a text that starts with a      *)
(* chain of quoted strings joined by '&'.  tree keeps how the text was     *)
(* put together: the segments (as written between the quotes, and as       *)
(* decoded) and what follows the chain.                                    *)

MaxChain == 3
MaxReads == 3

Segment(raw, val) == [raw |-> raw, val |-> val]

ChainSegments ==
    { Segment(Str(<<"a", "b">>), Str(<<"a", "b">>)),
      Segment(<<>>, <<>>),
      Segment(Str(<<"\\", "n">>), Str(<<"\n">>)),
      Segment(Str(<<" ", "&", "/", "/">>), Str(<<" ", "&", "/", "/">>)) }

\* whitespace and comments, as they may stand around an '&'
ChainGaps(binary) ==
    { <<>>,
      Str(<<" ">>),
      Str(<<"\n", "\t">>),
      Str(<<"/", "/", "c", "\n">>),
      IF binary THEN Str(<<"xEF", "xBB", "xBF">>) ELSE Str(<<"BOM">>) }

\* what follows the chain: whitespace or comments, then one token or nothing
Follower(gap, txt, tt, value) == [gap |-> gap, text |-> txt, tt |-> tt, value |-> value]

ChainFollowers ==
    { Follower(<<>>, <<>>, TOKEN_EOF, None),
      Follower(Str(<<" ", "/", "/", "c">>), <<>>, TOKEN_EOF, None),
      Follower(Str(<<" ">>), Str(<<"a", "b">>), TOKEN_STRING, Str(<<"a", "b">>)),
      Follower(<<>>, Str(<<":">>), TOKEN_COLON, None),
      Follower(Str(<<"/", "/", "c", "\n">>), Str(<<"}">>), TOKEN_CLOSE_BRACE, None),
      Follower(<<>>, Str(<<"\"", "q", "\"">>), TOKEN_STRING, Str(<<"q">>)) }

Chains == UNION { [1..n -> ChainSegments] : n \in 1..MaxChain }

\* the text of a chain: "seg" g1 & g2 "seg" ... then the follower
RenderChain(segs, g1, g2, f) ==
    Concat([i \in 1..Len(segs) |->
               (IF i > 1 THEN g1 \o <<ASCII_AMPERSAND>> \o g2 ELSE <<>>)
               \o <<ASCII_QUOTES>> \o segs[i].raw \o <<ASCII_QUOTES>>])
    \o f.gap \o f.text

InitChain ==
    /\ stack = Unused /\ reading = Unused
    /\ \E binary \in BOOLEAN, segs \in Chains, f \in ChainFollowers :
          \E g1, g2 \in ChainGaps(binary) :
             /\ tree = [segs |-> segs, follower |-> f]
             /\ doc = RenderChain(segs, g1, g2, f)
             /\ lexer = NewLexer(NewStream(RenderChain(segs, g1, g2, f), binary, <<>>))
    /\ last = [ret |-> Token(TOKEN_NONE, None), exc |-> NoExc]
    /\ called = 0
    /\ raisedBefore = FALSE
    /\ nodes = Unused /\ log = Unused /\ eager = Unused /\ toks = Unused
    /\ text = Unused /\ back = Unused /\ phase = Unused /\ writer = Unused

\* the variables after the caller's next read_next_token call ended as r
ChainRead(r) ==
    /\ called < MaxReads
    /\ called' = called + 1
    /\ lexer' = r.L
    /\ last' = [ret |-> IF r.exc = NoExc THEN r.v ELSE Token(TOKEN_NONE, None),
                 exc |-> r.exc]
    /\ raisedBefore' = (raisedBefore \/ last.exc # NoExc)
    /\ UNCHANGED <<stack, reading, doc, nodes, log, eager, toks, tree, text, back, phase, writer>>

ReadChainToken == ChainRead(read_next_token(lexer))

NextChain == ReadChainToken

SpecChain == InitChain /\ [][NextChain]_vars

\* C12: the first token read from a chain is one String token whose value is
\* the decoded segments joined in order; the lexer then stands at the token
\* that follows the chain (past the whitespace and comments before it), and
\* that token is read next.
C12_Concatenation ==
    /\ called = 1 =>
          /\ last.exc = NoExc
          /\ last.ret = Token(TOKEN_STRING,
                              Concat([i \in 1..Len(tree.segs) |-> tree.segs[i].val]))
          /\ Unread(lexer) = tree.follower.text
    /\ called = 2 =>
          /\ last.exc = NoExc
          /\ last.ret = Token(tree.follower.tt, tree.follower.value)

\* C12 witness: a chain of three segments with whitespace or comments on both
\* sides of each '&' has been read as one token, and another quoted string
\* that followed it without '&' as the next token
C12_Witness ==
    /\ called = 2
    /\ Len(tree.segs) = 3
    /\ tree.segs[1].val # <<>> /\ tree.segs[2].val # tree.segs[1].val
    /\ Len(doc) > 2 + Len(RenderChain(tree.segs, <<>>, <<>>, tree.follower))
    /\ last.ret = Token(TOKEN_STRING, Str(<<"q">>))

-----------------------------------------------------------------------------
(* C13, C14: the writer's depth and its flushing                           *)

\* the lines of the output that end in the character c (a line ends at "\n")
LinesEndingIn(out, c) ==
    { i \in 2..Len(out) : out[i] = ASCII_NEWLINE /\ out[i - 1] = c }

\* C13: indent_level is never negative and is the number of '{' lines written
\* minus the number of '}' lines written; end() at depth zero writes nothing
\* and leaves the writer and its stream as they were.
C13_DepthBalanced ==
    /\ [](/\ writer.indent_level >= 0
          /\ writer.indent_level =
                Cardinality(LinesEndingIn(writer.out, ASCII_OPEN_BRACE))
                - Cardinality(LinesEndingIn(writer.out, ASCII_CLOSE_BRACE)))
    /\ [][(last'.op = "end" /\ writer.indent_level = 0) =>
              (writer' = writer /\ last'.emitted = <<>>)]_vars

\* C13 witness: end() has been called at depth zero after an object was opened
\* and closed
C13_Witness ==
    /\ last.op = "end" /\ last.emitted = <<>>
    /\ writer.indent_level = 0
    /\ Cardinality(LinesEndingIn(writer.out, ASCII_OPEN_BRACE)) = 1
    /\ Cardinality(LinesEndingIn(writer.out, ASCII_CLOSE_BRACE)) = 1


\* Specification SpecWriterOps: a caller drives a YoctonWriter through the
\* three operations of its contract only
NextWriterOps == WriteProperty \/ BeginSubobject \/ End

SpecWriterOps == InitWriter /\ [][NextWriterOps]_vars

\* C14: whenever the writer is at depth zero everything written so far has
\* been flushed; unflushed output exists only at depth > 0.
C14_FlushedAtTop ==
    /\ writer.indent_level = 0 => writer.flushed = Len(writer.out)
    /\ writer.flushed < Len(writer.out) => writer.indent_level > 0
    /\ writer.flushed <= Len(writer.out)

\* C14 witness: the end() that closed a top-level object has flushed the
\* object's lines, which were unflushed while it was open
C14_Witness ==
    /\ last.op = "end" /\ last.emitted # <<>>
    /\ writer.indent_level = 0
    /\ called = MaxWrites
    /\ writer.flushed = Len(writer.out)
    /\ Cardinality(LinesEndingIn(writer.out, ASCII_OPEN_BRACE)) = 1
    /\ Cardinality(LinesEndingIn(writer.out, ASCII_CLOSE_BRACE)) = 1
    /\ Cardinality({ i \in 1..Len(writer.out) : writer.out[i] = ASCII_NEWLINE }) >= 3

-----------------------------------------------------------------------------
(* C15: the open nodes                                                     *)

RECURSIVE OpenChain(_)
\* the nodes met going down the child references from n while they are not done
OpenChain(n) ==
    IF n = NoNode THEN {}
    ELSE IF nodes[n].done THEN {}
    ELSE {n} \cup OpenChain(nodes[n].child)

\* C15: the nodes that are not done are exactly the chain root -> child ->
\* child -> ... of not-done nodes; a current child is a child of the node that
\* holds it, and a done node has no open child.
C15_SingleOpenChain ==
    /\ { n \in 1..Len(nodes) : ~nodes[n].done } = OpenChain(Root)
    /\ \A n \in 1..Len(nodes) :
          nodes[n].child # NoNode =>
              /\ nodes[nodes[n].child].parent = n
              /\ nodes[n].done => nodes[nodes[n].child].done

\* C15 witness: root, child and grandchild are open, after an earlier sibling of
\* the child was closed
C15_Witness ==
    /\ Cardinality(OpenChain(Root)) = 3
    /\ \E n \in 1..Len(nodes) : nodes[n].done /\ nodes[n].parent = Root

-----------------------------------------------------------------------------
(* C16: the grammar of one property                                        *)

\* what the k-th read_next_token on the text gives: a token, end of input
\* after the last token, or the lexer's error
TokAt(k) ==
    IF k <= Len(toks.toks)
    THEN [tt |-> toks.toks[k].tt, value |-> toks.toks[k].value, exc |-> NoExc]
    ELSE IF toks.exc = NoExc THEN [tt |-> TOKEN_EOF, value |-> None, exc |-> NoExc]
    ELSE [tt |-> TOKEN_NONE, value |-> None, exc |-> toks.exc]

\* the last call, on node n, read a name at line 281: the name is token j
ReadName(n, j) ==
    /\ called' = n
    /\ log' # <<>>
    /\ log'[Len(log')].node = n
    /\ log'[Len(log')].tt = TOKEN_STRING
    /\ j = TokenEndingAt(log'[Len(log')].to)

\* the objects created in the last call with n as parent (the call may have
\* created others below n while n skipped forward)
NewChildren(n) == { m \in (Len(nodes) + 1)..Len(nodes') : nodes'[m].parent = n }

\* the call returned the string-valued property (name, value): n got no child
YieldsString(n, name, value) ==
    /\ last'.exc = NoExc
    /\ last'.ret = YoctonProperty(name, value, NoNode)
    /\ NewChildren(n) = {}
    /\ nodes'[n].child = NoNode
    /\ nodes'[n].yields = Append(nodes[n].yields, last'.ret)

\* the call returned a property holding a new object: its parent is n and it is
\* n's current child
YieldsObject(n, name) ==
    /\ last'.exc = NoExc
    /\ last'.ret = YoctonProperty(name, None, Len(nodes'))
    /\ NewChildren(n) = {Len(nodes')}
    /\ ~nodes'[Len(nodes')].done
    /\ nodes'[n].child = Len(nodes')
    /\ nodes'[n].yields = Append(nodes[n].yields, last'.ret)

\* the call raised e and yielded no property
YieldsError(n, e) ==
    /\ last'.exc = e
    /\ last'.ret.isNone
    /\ NewChildren(n) = {}
    /\ nodes'[n].yields = nodes[n].yields

\* C16: a call of next_prop that read a name yields a string-valued property
\* when the next two tokens are ':' and a String, a property holding a new child
\* object when the next token is '{', and otherwise raises and yields nothing:
\* the lexer's error if the lexer fails on the next token, "string expected"
\* after a ':', "':' or '{' expected" after the name.  A call that did not read
\* a name yields no property.
C16_PropertyGrammar ==
    [][\A n \in 1..Len(nodes) :
          called' = n =>
             /\ \A j \in 1..Len(toks.toks) :
                   ReadName(n, j) =>
                      LET name == toks.toks[j].value
                          t1 == TokAt(j + 1)
                          t2 == TokAt(j + 2)
                      IN  CASE t1.exc # NoExc -> YieldsError(n, t1.exc)
                            [] t1.exc = NoExc /\ t1.tt = TOKEN_OPEN_BRACE -> YieldsObject(n, name)
                            [] t1.exc = NoExc /\ t1.tt = TOKEN_COLON /\ t2.exc # NoExc ->
                                   YieldsError(n, t2.exc)
                            [] t1.exc = NoExc /\ t1.tt = TOKEN_COLON /\ t2.exc = NoExc
                                 /\ t2.tt = TOKEN_STRING -> YieldsString(n, name, t2.value)
                            [] t1.exc = NoExc /\ t1.tt = TOKEN_COLON /\ t2.exc = NoExc
                                 /\ t2.tt # TOKEN_STRING ->
                                   YieldsError(n, SyntaxError("string expected to follow ':'"))
                            [] OTHER ->
                                   YieldsError(n, SyntaxError("':' or '{' expected to follow property name"))
             /\ ~last'.ret.isNone => \E j \in 1..Len(toks.toks) : ReadName(n, j)
      ]_vars

\* C16 witness: a nested node has read a name and then a ':' that end of input
\* follows, after it had yielded a string-valued property and a child object
C16_Witness ==
    /\ called # NoNode /\ called # Root
    /\ last.exc = SyntaxError("string expected to follow ':'")
    /\ toks.toks # <<>>
    /\ toks.toks[Len(toks.toks)].tt = TOKEN_COLON
    /\ toks.exc = NoExc
    /\ \E i, k \in 1..Len(nodes[called].yields) :
          nodes[called].yields[i].obj = NoNode /\ nodes[called].yields[k].obj # NoNode

-----------------------------------------------------------------------------
(* Specification SpecEsc: the Lexer reads a quoted string that holds one    *)
(* '\x' escape followed by two characters d1, d2.  tree keeps d1, d2 and   *)
(* the text around the escape.                                             *)

EscChars ==
    { OrdOf("0"), OrdOf("1"), OrdOf("2"), OrdOf("9"), OrdOf("a"), OrdOf("f"),
      OrdOf("A"), OrdOf("F"), OrdOf("g"), OrdOf("G"), OrdOf("x"), OrdOf("_"),
      OrdOf("+"), OrdOf("-"), OrdOf(" "), OrdOf("\t"), OrdOf("\n"), OrdOf("\"") }

EscAround == { <<>>, Str(<<"a", "b">>) }

InitEsc ==
    /\ stack = Unused /\ reading = Unused
    /\ \E binary \in BOOLEAN, d1, d2 \in EscChars, pre, post \in EscAround :
          /\ tree = [d1 |-> d1, d2 |-> d2, pre |-> pre, post |-> post]
          /\ doc = <<ASCII_QUOTES>> \o pre \o <<ASCII_BACKSLASH, ASCII_X, d1, d2>>
                   \o post \o <<ASCII_QUOTES>>
          /\ lexer = NewLexer(NewStream(<<ASCII_QUOTES>> \o pre
                                         \o <<ASCII_BACKSLASH, ASCII_X, d1, d2>>
                                         \o post \o <<ASCII_QUOTES>>, binary, <<>>))
    /\ last = [ret |-> Token(TOKEN_NONE, None), exc |-> NoExc]
    /\ called = 0
    /\ raisedBefore = FALSE
    /\ nodes = Unused /\ log = Unused /\ eager = Unused /\ toks = Unused
    /\ text = Unused /\ back = Unused /\ phase = Unused /\ writer = Unused

NextEsc == ReadChainToken

SpecEsc == InitEsc /\ [][NextEsc]_vars

\* the value of a hexadecimal digit [0-9A-Fa-f], or -1 for any other character
HexValue(c) ==
    IF c \in 48..57 THEN c - 48
    ELSE IF c \in 65..70 THEN c - 55
    ELSE IF c \in 97..102 THEN c - 87
    ELSE -1

\* C17: '\x' d1 d2 is accepted only when d1 and d2 are hexadecimal digits and
\* the value they encode is in 1..31, and then decodes to that value; for every
\* other d1 d2 the read raises SyntaxError and sets the sticky error flag.
C17_HexEscape ==
    called = 1 =>
        IF /\ HexValue(tree.d1) >= 0 /\ HexValue(tree.d2) >= 0
           /\ 16 * HexValue(tree.d1) + HexValue(tree.d2) \in 1..31
        THEN /\ last.exc = NoExc
             /\ last.ret = Token(TOKEN_STRING,
                                 tree.pre \o <<16 * HexValue(tree.d1) + HexValue(tree.d2)>>
                                 \o tree.post)
        ELSE /\ last.exc.cls = "SyntaxError"
             /\ lexer.error

-----------------------------------------------------------------------------
(* Specification SpecBlank: the parser reads a document that holds only    *)
(* whitespace, byte-order marks and comments, from a str or bytes stream.  *)

MaxBlanks == 3

BlankFragments(binary) ==
    { Str(<<" ">>),
      Str(<<"\n">>),
      Str(<<"\t">>),
      Str(<<"/", "/", "c", " ", "{", "\n">>),
      Str(<<"/", "/", "\n">>),
      IF binary THEN Str(<<"xEF", "xBB", "xBF">>) ELSE Str(<<"BOM">>) }

\* how a blank document may end: nothing more, or a comment without newline
BlankEndings == { <<>>, Str(<<"/", "/">>), Str(<<"/", "/", "c", ":">>) }

BlankDocuments(binary) ==
    UNION { { Concat(fs) \o e : fs \in [1..n -> BlankFragments(binary)], e \in BlankEndings }
            : n \in 0..MaxBlanks }

\* the variables after parse(fp) on a stream holding d
Parsing(d, binary) ==
    /\ doc = d
    /\ lexer = parse(NewStream(d, binary, <<>>)).lexer
    /\ nodes = parse(NewStream(d, binary, <<>>)).nodes
    /\ eager = Outcome(loads(d, binary))
    /\ toks = TokensOf(d, binary)

InitBlank ==
    /\ stack = Unused /\ reading = Unused
    /\ \E binary \in BOOLEAN : \E d \in BlankDocuments(binary) : Parsing(d, binary)
    /\ log = <<>>
    /\ last = [ret |-> NoProp, exc |-> NoExc]
    /\ called = NoNode
    /\ raisedBefore = FALSE
    /\ tree = Unused /\ text = Unused /\ back = Unused /\ phase = Unused
    /\ writer = Unused

SpecBlank == InitBlank /\ [][Next]_vars

\* C18: on a document of whitespace, byte-order marks and comments load()
\* returns the empty tree, and once next_prop has been called on the root it
\* has returned None without an error, the root is done and has yielded
\* nothing, no other node exists and the error flag is not set.
C18_BlankDocument ==
    /\ eager = [exc |-> NoExc, result |-> <<>>]
    /\ toks = [toks |-> <<>>, exc |-> NoExc]
    /\ called # NoNode =>
          /\ last.exc = NoExc /\ last.ret.isNone
          /\ nodes[Root].done /\ nodes[Root].yields = <<>>
          /\ Len(nodes) = 1
          /\ ~lexer.error

\* C18 witness: the first next_prop on the root has read end-of-input from a
\* document that holds a byte-order mark and ends in a comment without newline
C18_Witness ==
    /\ called = Root
    /\ log # <<>> /\ log[1].tt = TOKEN_EOF
    /\ Len(doc) >= 5
    /\ doc[1] \in {BOM, UTF8_BOM[1]}
    /\ doc[Len(doc)] = ASCII_COLON
    /\ nodes[Root].done


-----------------------------------------------------------------------------
(* Specification SpecDrain: next_prop at the grain of its skip_forward     *)
(* loop.  stack holds the nodes whose next_prop call is active; every one  *)
(* but the last waits at line 257 for the call it made on its child.  One  *)
(* step is one loop test of line 256 with the call it leads to, or the     *)
(* rest of the call (lines 258, 281-296) once the test fails.  The calls   *)
(* come from a caller who picks any node at any time, or from load(),      *)
(* whose read_obj iterates the object it was given and the objects that    *)
(* yields, innermost first.                                                *)

MaxDrainFrags == 5

DrainDocuments == DocumentsUpTo(MaxDrainFrags)

\* history: log keeps the first MaxLogged tokens the outermost call and the
\* calls it made read at line 281
MaxLogged == 4

Top(s) == s[Len(s)]
Front(s) == SubSeq(s, 1, Len(s) - 1)

InitDrain ==
    /\ doc \in DrainDocuments
    /\ lexer = parses(doc, FALSE).lexer
    /\ nodes = parses(doc, FALSE).nodes
    /\ log = <<>>
    /\ last = [ret |-> NoProp, exc |-> NoExc]
    /\ called = NoNode
    /\ raisedBefore = FALSE
    /\ phase \in {"caller", "load"}
    /\ stack = <<>>
    /\ reading = IF phase = "load" THEN <<1>> ELSE <<>>
    /\ eager = Unused /\ toks = Unused /\ tree = Unused /\ text = Unused
    /\ back = Unused /\ writer = Unused

\* what the code that made the outermost call gets: read_obj (lines 384-391)
\* leaves the object on None, enters an object it is given, and is left
\* altogether by an exception
Deliver(ret, exc) ==
    /\ last' = [ret |-> ret, exc |-> exc]
    /\ IF phase # "load" THEN UNCHANGED <<reading, phase>>
       ELSE IF exc # NoExc THEN reading' = <<>> /\ phase' = "raised"
       ELSE IF ret.isNone
            THEN /\ reading' = Front(reading)
                 /\ phase' = IF Len(reading) = 1 THEN "returned" ELSE "load"
       ELSE IF ret.obj # NoNode
            THEN reading' = Append(reading, ret.obj) /\ UNCHANGED phase
       ELSE UNCHANGED <<reading, phase>>

\* the outermost call n.next_prop() begins: lines 277-278
Enter(n) ==
    /\ called' = n
    /\ log' = <<>>
    /\ raisedBefore' = (raisedBefore \/ last.exc # NoExc)
    /\ IF nodes[n].done
       THEN stack' = <<>> /\ Deliver(NoProp, NoExc)
       ELSE stack' = <<n>> /\ UNCHANGED <<last, reading, phase>>
    /\ UNCHANGED <<doc, lexer, nodes, eager, toks, tree, text, back, writer>>

\* a caller calls next_prop on any object it may hold
CallNextProp(n) ==
    /\ phase = "caller"
    /\ stack = <<>>
    /\ Enter(n)

\* read_obj's for loop asks the object it is iterating for its next property
LoadCall ==
    /\ phase = "load"
    /\ stack = <<>>
    /\ reading # <<>>
    /\ Enter(Top(reading))

\* the loop test of line 256
ChildOpen(n) ==
    /\ nodes[n].child # NoNode
    /\ ~nodes[nodes[n].child].done

\* lines 256-257: the test holds and next_prop is called on the child, which
\* is not done
LoopEnter ==
    /\ stack # <<>>
    /\ ChildOpen(Top(stack))
    /\ stack' = Append(stack, nodes[Top(stack)].child)
    /\ UNCHANGED <<doc, lexer, nodes, log, last, called, raisedBefore, eager, toks,
                   tree, text, back, phase, writer, reading>>

\* the innermost call ended as r: an exception leaves every active call, a
\* return goes to line 256 of the call below, or to the code that called
Leave(r) ==
    /\ lexer' = r.P.lexer
    /\ nodes' = r.P.nodes
    /\ log' = SubSeq(r.P.log, 1, Min(Len(r.P.log), MaxLogged))
    /\ IF r.exc # NoExc THEN stack' = <<>> /\ Deliver(NoProp, r.exc)
       ELSE IF Len(stack) = 1 THEN stack' = <<>> /\ Deliver(r.v, NoExc)
       ELSE stack' = Front(stack) /\ UNCHANGED <<last, reading, phase>>
    /\ UNCHANGED <<doc, called, raisedBefore, eager, toks, tree, text, back, writer>>

\* the test of line 256 fails: line 258 and lines 281-296
ReadStep ==
    /\ stack # <<>>
    /\ ~ChildOpen(Top(stack))
    /\ Leave(next_prop_read([lexer |-> lexer,
                             nodes |-> [nodes EXCEPT ![Top(stack)].child = NoNode],
                             log |-> log], Top(stack)))

NextDrain ==
    \/ \E n \in 1..Len(nodes) : CallNextProp(n)
    \/ LoadCall
    \/ LoopEnter
    \/ ReadStep

\* a next_prop call is active, or load()'s read_obj has an object to iterate
Running == stack # <<>> \/ (phase = "load" /\ reading # <<>>)

\* the interpreter executes the statement the innermost active call, or
\* read_obj's loop, stands at: a call begins, or the innermost call makes a
\* call on its child, returns or raises.  Execute says only what such a step
\* does to the stack; the steps of NextDrain that are Execute steps are the
\* steps of LoadCall, LoopEnter and ReadStep.
Execute ==
    /\ Running
    /\ stack' \in {<<>>, Front(stack)} \cup {Append(stack, n) : n \in 1..Len(nodes)}

\* a call that has begun and load()'s loop run on: the interpreter executes
\* the next statement; only the caller may stop calling
SpecDrain == InitDrain /\ [][NextDrain]_vars /\ WF_stack(Execute)

\* an iteration of the skip_forward loop ends: the call on the child returns
\* to line 256
IterationEnds == Len(stack) >= 2 /\ stack' = Front(stack)

\* C19: every next_prop call that has begun returns or raises, load() ends
\* with its tree or an error, and every iteration of the skip_forward loop
\* that returns has consumed input or marked the child done.  (The last
\* conjunct: the steps the fairness condition of SpecDrain asks for are the
\* steps of LoadCall, LoopEnter and ReadStep.)
C19_DrainingTerminates ==
    /\ (stack # <<>>) ~> (stack = <<>>)
    /\ (phase = "load") ~> (phase \in {"returned", "raised"})
    /\ [][IterationEnds =>
            \/ Len(Unread(lexer')) < Len(Unread(lexer))
            \/ nodes'[Top(stack)].done]_vars
    /\ [][(LoadCall \/ LoopEnter \/ ReadStep) <=> (Execute /\ stack' # stack)]_vars

\* a call on the root has returned after its skip_forward loop ran at least
\* twice, on the child and below it
C19_Witness ==
    /\ phase = "caller"
    /\ stack = <<>>
    /\ called = 1
    /\ last.exc = NoExc
    /\ Len(SelectSeq(log, LAMBDA e : e.node # 1)) >= 2
    /\ \E i, j \in 1..Len(log) : log[i].node # 1 /\ log[j].node \notin {1, log[i].node}


-----------------------------------------------------------------------------
(* Specification SpecChunk: the lexer on a source whose read(128) may      *)
(* return fewer characters than asked for.  Before each read_next_token    *)
(* call the source settles the lengths of its next reads (one or two       *)
(* characters each, at most MaxCuts of them; later reads return all that   *)
(* is left), so a buffer may end anywhere inside a token.  toks holds the  *)
(* tokens of the same text read from a source that returns it in one       *)
(* piece.                                                                  *)

MaxChunkFrags == 2
MaxCuts == 3

ChunkFragments(binary) ==
    { Str(<<"a", "b">>),
      Str(<<"\"", "a", " ", "b", "\"">>),
      Str(<<"\"", "\\", "n", "\"">>),
      Str(<<"\"", "\\", "x", "0", "1", "\"">>),
      Str(<<"\"">>),
      Str(<<"&">>),
      Str(<<"\"", "a", "\"", " ", "&", " ", "\"", "b", "\"">>),
      Str(<<"/", "/", "c", "\n">>),
      IF binary THEN Str(<<"xEF", "xBB", "xBF">>) ELSE Str(<<"BOM">>) }

ChunkDocuments(binary) ==
    UNION { { Concat(fs) : fs \in [1..n -> ChunkFragments(binary)] } : n \in 0..MaxChunkFrags }

\* the lengths of the source's next short reads
ChunkPlans == UNION { [1..m -> {1, 2}] : m \in 0..MaxCuts }

\* the characters read into the buffer and not consumed yet
Buffered(L) == IF L.buf_index < Len(L.buf) THEN Len(L.buf) - L.buf_index ELSE 0

\* where the source's chunks end, counted in characters from the lexer's
\* position: the end of the buffer and the end of each read of the plan
ChunkEnds(L, plan) ==
    { Buffered(L) + Len(SelectSeq(SubSeq(plan, 1, j), LAMBDA c : c = 1))
                  + 2 * Len(SelectSeq(SubSeq(plan, 1, j), LAMBDA c : c = 2))
      : j \in 0..Len(plan) }

InitChunk ==
    /\ stack = Unused /\ reading = Unused
    /\ \E binary \in BOOLEAN :
          /\ doc \in ChunkDocuments(binary)
          /\ lexer = NewLexer(NewStream(doc, binary, <<>>))
          /\ toks = TokensOf(doc, binary)
    /\ last = [ret |-> Token(TOKEN_NONE, None), exc |-> NoExc]
    /\ called = 0
    /\ log = <<>>
    /\ tree = [consumed |-> 0, ends |-> {}]
    /\ raisedBefore = FALSE
    /\ nodes = Unused /\ eager = Unused /\ text = Unused /\ back = Unused
    /\ phase = Unused /\ writer = Unused

\* the variables after a read_next_token call that ended as r, the source's
\* reads during it having the lengths of plan; log collects the tokens read
\* and the position after each, tree keeps how many characters the call
\* consumed and the chunk ends that fell strictly inside them
ChunkRead(plan, r) ==
    /\ called' = called + 1
    /\ lexer' = [r.L EXCEPT !.instream.cuts = <<>>]
    /\ last' = [ret |-> IF r.exc = NoExc THEN r.v ELSE Token(TOKEN_NONE, None),
                 exc |-> r.exc]
    /\ log' = IF r.exc = NoExc /\ r.v.tt # TOKEN_EOF
              THEN Append(log, [tt |-> r.v.tt, value |-> r.v.value,
                                to |-> Len(Unread(r.L))])
              ELSE log
    /\ tree' = [consumed |-> Len(Unread(lexer)) - Len(Unread(r.L)),
                ends |-> { b \in ChunkEnds(lexer, plan) :
                             0 < b /\ b < Len(Unread(lexer)) - Len(Unread(r.L)) }]
    /\ UNCHANGED <<doc, nodes, raisedBefore, eager, toks, text, back, phase, writer,
                   stack, reading>>

\* one call of lexer.read_next_token() by a caller who stops at the first
\* exception
ReadChunkedToken ==
    /\ called < MaxReads
    /\ last.exc = NoExc
    /\ \E plan \in ChunkPlans :
          ChunkRead(plan, read_next_token([lexer EXCEPT !.instream.cuts = plan]))

NextChunk == ReadChunkedToken

SpecChunk == InitChunk /\ [][NextChunk]_vars

\* C20: however the source splits the text into non-empty chunks, the tokens
\* read_next_token returns, the position after each, and the exception that
\* ends the reading are those of the text read in one piece.
C20_ChunkIndependence ==
    /\ IsPrefix(log, toks.toks)
    /\ last.exc # NoExc => (last.exc = toks.exc /\ log = toks.toks)
    /\ (called > 0 /\ last.exc = NoExc /\ last.ret.tt = TOKEN_EOF)
          => (toks.exc = NoExc /\ log = toks.toks)
    /\ (called > 0 /\ last.exc = NoExc /\ last.ret.tt # TOKEN_EOF)
          => (Len(log) = called /\ last.ret = Token(log[called].tt, log[called].value))

\* a call returned the string of "\n" (four characters consumed) while a
\* chunk of the source ended between the backslash and the n
C20_Witness ==
    /\ called > 0
    /\ last.exc = NoExc
    /\ last.ret = Token(TOKEN_STRING, <<ASCII_NEWLINE>>)
    /\ tree.consumed = 4
    /\ 2 \in tree.ends

=============================================================================
